---- MODULE Spec2Model ----
(***************************************************************************)
(* Location giveaway (src/streamlit_app.py): one interactive session of    *)
(* the Streamlit script.  The state is st.session_state (page,             *)
(* participants, winner), the sidebar radio widget, a pending st.rerun()   *)
(* and what the last script run displayed.  Every user interaction runs    *)
(* the whole script once: sidebar radio, then the routed page function.    *)
(***************************************************************************)
EXTENDS Integers, Sequences, FiniteSets, TLC

\* Largest number of data rows in an uploaded file.
MaxRows == 2

\* closest[...].head(10)
LeaderboardRows == 10

(***************************************************************************)
(* Values.  None / Some(x) stand for Python's None and a present object.   *)
(* A float is NaN or a number; coordinates are held in micro-degrees and   *)
(* distances in metres.                                                    *)
(***************************************************************************)
None == <<>>
Some(x) == <<x>>
Get(o) == o[1]

NaN == [nan |-> TRUE, v |-> 0]
Num(v) == [nan |-> FALSE, v |-> v]

\* A missing cell of a DataFrame (an empty field, a padded short row).
NA == <<>>

(***************************************************************************)
(* CSV input.  A file is a header (column names) and data rows; a row is   *)
(* its fields as the CSV tokenizer yields them; a field is the sequence of *)
(* the comma-separated atoms of its text: an unquoted field has one atom,  *)
(* a quoted field "a,b" has two.                                           *)
(***************************************************************************)
Numerals == {"-33.867582661116245", "151.05560569089798", "40.7128", "-74.0060"}

\* What float() yields for each numeral the model feeds in (micro-degrees).
NumeralValue(s) ==
    CASE s = "-33.867582661116245" -> -33867583
      [] s = "151.05560569089798"  -> 151055606
      [] s = "40.7128"             -> 40712800
      [] s = "-74.0060"            -> -74006000

GIVEAWAY_LOCATION == <<Num(-33867583), Num(151055606)>>

\* The rows a file is built from: three well-formed rows (two of them at the
\* same place), a coordinates cell without a comma, one with a non-numeric
\* longitude, one with an empty longitude, and a row of three unquoted
\* fields as the format help shows it.
RowChoices ==
    { << <<"John Doe">>, <<"-33.867582661116245", "151.05560569089798">> >>,
      << <<"Jane Smith">>, <<"-33.867582661116245", "151.05560569089798">> >>,
      << <<"Jane Smith">>, <<"40.7128", "-74.0060">> >>,
      << <<"John Doe">>, <<"40.7128">> >>,
      << <<"John Doe">>, <<"40.7128", "abc">> >>,
      << <<"John Doe">>, <<"40.7128", "">> >>,
      << <<"John Doe">>, <<"-33.867582661116245">>, <<"151.05560569089798">> >> }

SeqsUpTo(S, n) == UNION { [1..k -> S] : k \in 0..n }

\* The zero-byte file, the header name,coordinates with up to MaxRows rows,
\* and the header name,lat,lon with up to one row.
Files ==
    { [header |-> <<>>, rows |-> <<>>] } \cup
    { [header |-> <<"name", "coordinates">>, rows |-> rs] :
         rs \in SeqsUpTo(RowChoices, MaxRows) } \cup
    { [header |-> <<"name", "lat", "lon">>, rows |-> rs] :
         rs \in SeqsUpTo(RowChoices, 1) }

\* The format the upload page's "CSV Format Help" documents: header
\* name,coordinates and rows of three unquoted fields name,lat,lon.
IsDocumentedFormat(file) ==
    /\ file.header = <<"name", "coordinates">>
    /\ file.rows # <<>>
    /\ \A i \in DOMAIN file.rows :
          /\ Len(file.rows[i]) = 3
          /\ \A j \in 1..3 : Len(file.rows[i][j]) = 1
          /\ file.rows[i][2][1] \in Numerals
          /\ file.rows[i][3][1] \in Numerals

(***************************************************************************)
(* pandas.read_csv.  A zero-byte file raises EmptyDataError.  When the     *)
(* first data row has more fields than the header, the leading extra       *)
(* fields become the row index; a later row with more fields than that     *)
(* raises ParserError, a shorter row is padded with missing cells.         *)
(***************************************************************************)
CellValue(field) == IF field = <<"">> THEN NA ELSE field

read_csv(file) ==
    IF file.header = <<>>
    THEN [ok |-> FALSE, columns |-> <<>>, cells |-> <<>>]
    ELSE LET ncols == Len(file.header)
             lead  == IF file.rows # <<>> /\ Len(file.rows[1]) > ncols
                      THEN Len(file.rows[1]) - ncols ELSE 0
         IN IF \E i \in DOMAIN file.rows : Len(file.rows[i]) > ncols + lead
            THEN [ok |-> FALSE, columns |-> <<>>, cells |-> <<>>]
            ELSE [ok |-> TRUE,
                  columns |-> file.header,
                  cells |-> [i \in DOMAIN file.rows |->
                               [j \in 1..ncols |->
                                  IF lead + j <= Len(file.rows[i])
                                  THEN CellValue(file.rows[i][lead + j])
                                  ELSE NA]]]

\* dtype inference: a column whose cells are all numerals or missing is
\* float64 (no .str accessor); a column of a frame without rows is object.
IsNumericCell(cell) == cell = NA \/ (Len(cell) = 1 /\ cell[1] \in Numerals)

HasStrAccessor(df, j) ==
    \/ df.cells = <<>>
    \/ \E i \in DOMAIN df.cells : ~IsNumericCell(df.cells[i][j])

\* Series.str.split(r'\s*,\s*', n=1): at most two parts; what follows the
\* first comma stays one part (text with a comma in it when there are more).
str_split(cell) ==
    IF cell = NA THEN NA
    ELSE IF Len(cell) = 1 THEN <<cell[1]>>
    ELSE IF Len(cell) = 2 THEN <<cell[1], cell[2]>>
    ELSE <<cell[1], ",">>

MaxOf(S) == IF S = {} THEN 0 ELSE CHOOSE m \in S : \A x \in S : x <= m

\* Mutant of coord_split_shape: the column count is taken for granted.
coord_split_shape_unchecked(parts) == 2

\* coord_split.shape[1] with expand=True: the widest row's number of parts
\* (no columns at all for a frame without rows).
coord_split_shape(parts) == MaxOf({ Len(parts[i]) : i \in DOMAIN parts })

\* coord_split[k] for one row: None where the row has fewer parts.
PartOf(p, k) == IF k <= Len(p) THEN Some(p[k]) ELSE None

\* pd.to_numeric: None and the empty string give NaN, a numeral its value,
\* anything else raises ValueError.
to_numeric_ok(part) == part = None \/ Get(part) = "" \/ Get(part) \in Numerals

to_numeric(part) ==
    IF part = None \/ Get(part) = "" THEN NaN ELSE Num(NumeralValue(Get(part)))

(***************************************************************************)
(* calculate_distance: the Haversine formula, tabulated (in metres,        *)
(* rounded) from the source's formula for the coordinates of the model.    *)
(* NaN in, NaN out.                                                        *)
(***************************************************************************)
HaversineMetres(lat, lon) ==
    CASE lat = -33867583 /\ lon = 151055606 -> 0
      [] lat = -33867583 /\ lon = -74006000 -> 11137495
      [] lat = 40712800  /\ lon = 151055606 -> 8292960
      [] lat = 40712800  /\ lon = -74006000 -> 16001623

calculate_distance(lat1, lon1, lat2, lon2) ==
    IF lat1.nan \/ lon1.nan \/ lat2.nan \/ lon2.nan THEN NaN
    ELSE Num(HaversineMetres(lat2.v, lon2.v))

(***************************************************************************)
(* A script run's result: the session state it leaves, the message it      *)
(* showed (st.error / st.success), whether it died of an uncaught          *)
(* exception, whether it ended in st.rerun(), and the leaderboard table    *)
(* it displayed.                                                           *)
(***************************************************************************)
Out(ss, msg, fault, rerun, leaderboard) ==
    [page |-> ss.page, participants |-> ss.participants, winner |-> ss.winner,
     msg |-> msg, fault |-> fault, rerun |-> rerun, leaderboard |-> leaderboard]

\* The participants frame the upload page builds from a parsed file whose
\* coordinates split into the two columns `parts`.
BuildParticipants(df, parts) ==
    [i \in DOMAIN df.cells |->
        LET latitude  == to_numeric(PartOf(parts[i], 1))
            longitude == to_numeric(PartOf(parts[i], 2))
        IN [name |-> df.cells[i][1],
            coordinates |-> df.cells[i][2],
            latitude |-> latitude,
            longitude |-> longitude,
            distance_km |-> calculate_distance(GIVEAWAY_LOCATION[1], GIVEAWAY_LOCATION[2],
                                               latitude, longitude)]]

\* Mutant of upload_error: the handler has already dropped the stored frame.
upload_error_clears(ss, msg) ==
    Out([ss EXCEPT !.participants = None], msg, FALSE, FALSE, None)

\* st.error(...) and return (or the except clause): the session is as it was.
upload_error(ss, msg) == Out(ss, msg, FALSE, FALSE, None)

\* Page 1.  uploaded_file is None when the uploader holds no file.
upload_page(ss, uploaded_file) ==
    IF uploaded_file = None THEN Out(ss, "none", FALSE, FALSE, None)
    ELSE LET df == read_csv(Get(uploaded_file)) IN
      IF ~df.ok THEN upload_error(ss, "exception")
      ELSE IF df.columns # <<"name", "coordinates">>
      THEN upload_error(ss, "invalid_columns")
      ELSE IF ~HasStrAccessor(df, 2) THEN upload_error(ss, "exception")
      ELSE LET parts == [i \in DOMAIN df.cells |-> str_split(df.cells[i][2])] IN
        IF coord_split_shape(parts) # 2
        THEN upload_error(ss, "invalid_format")
        ELSE IF \E i \in DOMAIN parts :
                   ~to_numeric_ok(PartOf(parts[i], 1)) \/ ~to_numeric_ok(PartOf(parts[i], 2))
        THEN upload_error(ss, "exception")
        ELSE Out([ss EXCEPT !.participants = Some(BuildParticipants(df, parts)),
                            !.page = "map"],
                 "success", FALSE, TRUE, None)

\* st.map refuses latitude / longitude columns that hold null values.
HasNull(participants) ==
    \E i \in DOMAIN participants : participants[i].latitude.nan \/ participants[i].longitude.nan

\* Mutant of idxmin: the last label holding the least value.
idxmin_last(participants) ==
    LET valid == { i \in DOMAIN participants : ~participants[i].distance_km.nan } IN
    IF valid = {} THEN 0
    ELSE CHOOSE i \in valid :
           \A j \in valid :
              \/ participants[i].distance_km.v < participants[j].distance_km.v
              \/ participants[i].distance_km.v = participants[j].distance_km.v /\ i >= j

\* Series.idxmin: the first label holding the least non-NaN value; 0 when
\* there is none (the call, or the .loc lookup after it, raises).
idxmin(participants) ==
    LET valid == { i \in DOMAIN participants : ~participants[i].distance_km.nan } IN
    IF valid = {} THEN 0
    ELSE CHOOSE i \in valid :
           \A j \in valid :
              \/ participants[i].distance_km.v < participants[j].distance_km.v
              \/ participants[i].distance_km.v = participants[j].distance_km.v /\ i <= j

\* participants.loc[label].copy(): the row's values, named by its label.
loc_copy(participants, label) == [index |-> label, row |-> participants[label]]

\* Page 2.  draw: the "Draw Winner" button was clicked.
map_page(ss, draw) ==
    IF ss.participants = None THEN Out(ss, "no_data", FALSE, FALSE, None)
    ELSE IF HasNull(Get(ss.participants)) THEN Out(ss, "none", TRUE, FALSE, None)
    ELSE IF draw
    THEN LET label == idxmin(Get(ss.participants)) IN
         IF label = 0 THEN Out(ss, "none", TRUE, FALSE, None)
         ELSE Out([ss EXCEPT !.winner = Some(loc_copy(Get(ss.participants), label)),
                             !.page = "winner"],
                  "none", FALSE, TRUE, None)
    ELSE Out(ss, "none", FALSE, FALSE, None)

Injective(f) == \A a, b \in DOMAIN f : f[a] = f[b] => a = b

\* sort_values('distance_km'): the row orders the default sort kind
\* ('quicksort', not a stable kind) can return: ascending, rows of equal
\* distance in either order, NaN rows last in their original order.
sort_values(participants) ==
    LET n == Len(participants)
        Before(a, b) ==
            LET da == participants[a].distance_km
                db == participants[b].distance_km
            IN IF da.nan /\ db.nan THEN a < b
               ELSE IF da.nan THEN FALSE
               ELSE IF db.nan THEN TRUE
               ELSE da.v <= db.v
    IN { p \in [1..n -> 1..n] :
           /\ Injective(p)
           /\ \A a, b \in 1..n : a < b => Before(p[a], p[b]) }

head(s, n) == SubSeq(s, 1, IF Len(s) < n THEN Len(s) ELSE n)

\* closest[['name', 'distance_km']].head(10) for the row order `order`.
Leaderboard(participants, order) ==
    head([k \in DOMAIN order |->
            [name |-> participants[order[k]].name,
             distance_km |-> participants[order[k]].distance_km]],
         LeaderboardRows)

\* Mutant of winner_page: the frame is sorted in place.
winner_page_inplace(ss, order) ==
    IF ss.participants = None \/ ss.winner = None
    THEN Out([ss EXCEPT !.page = "upload"], "no_winner", FALSE, TRUE, None)
    ELSE IF HasNull(Get(ss.participants)) THEN Out(ss, "banner", TRUE, FALSE, None)
    ELSE Out([ss EXCEPT !.participants =
                 Some([k \in DOMAIN order |-> Get(ss.participants)[order[k]]])],
             "banner", FALSE, FALSE, Some(Leaderboard(Get(ss.participants), order)))

\* Page 3.  order: the row order sort_values returns in this run.
winner_page(ss, order) ==
    IF ss.participants = None \/ ss.winner = None
    THEN Out([ss EXCEPT !.page = "upload"], "no_winner", FALSE, TRUE, None)
    ELSE IF HasNull(Get(ss.participants)) THEN Out(ss, "banner", TRUE, FALSE, None)
    ELSE Out(ss, "banner", FALSE, FALSE, Some(Leaderboard(Get(ss.participants), order)))

(***************************************************************************)
(* Sidebar navigation and page routing.                                    *)
(***************************************************************************)
page_values == <<"upload", "map", "winner">>

\* page_values.index(page), else 0 (positions counted from 1 here).
current_index(page) ==
    IF \E k \in DOMAIN page_values : page_values[k] = page
    THEN CHOOSE k \in DOMAIN page_values : page_values[k] = page
    ELSE 1

\* st.sidebar.radio("Go to", page_names, index=index).  The radio has no
\* key, so the widget is identified by its arguments: called with the index
\* it had in the previous run it is the same widget and returns its stored
\* selection (the user's click, if any); called with another index it is a
\* new widget that returns the option at index, and a click made on the
\* old widget is dropped.
radio(radioIdx, radioVal, index, click) ==
    IF index = radioIdx
    THEN (IF click = None THEN radioVal ELSE Get(click))
    ELSE page_values[index]

\* One run of the script: sidebar radio, page assignment, page routing.
Script(ss, rIdx, rVal, click, uploaded_file, draw, order) ==
    LET index    == current_index(ss.page)
        selected == radio(rIdx, rVal, index, click)
        s1       == [ss EXCEPT !.page = selected]
        r        == CASE selected = "upload" -> upload_page(s1, uploaded_file)
                      [] selected = "map"    -> map_page(s1, draw)
                      [] selected = "winner" -> winner_page(s1, order)
    IN [run |-> r, radioIdx |-> index, radioVal |-> selected]

(***************************************************************************)
(* State.                                                                  *)
(***************************************************************************)
VARIABLES
    page,          \* st.session_state.page
    participants,  \* st.session_state.participants: None or Some(frame)
    winner,        \* st.session_state.winner: None or Some(row copy)
    radioIdx,      \* index argument of the radio widget of the last run
    radioVal,      \* selection that widget holds
    pending,       \* the last run ended in st.rerun()
    msg,           \* message the last run showed
    fault,         \* the last run died of an uncaught exception
    leaderboard,   \* table the last run displayed: None or Some(rows)
    lastOp,        \* what triggered the last run
    fileKind       \* the file given to the last upload run

vars == <<page, participants, winner, radioIdx, radioVal, pending, msg, fault,
          leaderboard, lastOp, fileKind>>

session == [page |-> page, participants |-> participants, winner |-> winner]

\* The orders sort_values can return in the run the click starts: the call
\* is made only on the winner page, with participants and winner present.
Orders(click) ==
    IF /\ radio(radioIdx, radioVal, current_index(page), click) = "winner"
       /\ participants # None
       /\ winner # None
    THEN sort_values(Get(participants))
    ELSE {<<>>}

\* The state a script run leaves.
Apply(res, op, kind) ==
    /\ page' = res.run.page
    /\ participants' = res.run.participants
    /\ winner' = res.run.winner
    /\ radioIdx' = res.radioIdx
    /\ radioVal' = res.radioVal
    /\ pending' = res.run.rerun
    /\ msg' = res.run.msg
    /\ fault' = res.run.fault
    /\ leaderboard' = res.run.leaderboard
    /\ lastOp' = op
    /\ fileKind' = kind

\* The state after the first script run of a new session.
Init ==
    /\ page = "upload"
    /\ participants = None
    /\ winner = None
    /\ radioIdx = 1
    /\ radioVal = "upload"
    /\ pending = FALSE
    /\ msg = "none"
    /\ fault = FALSE
    /\ leaderboard = None
    /\ lastOp = "init"
    /\ fileKind = "none"

\* The user drops a file on the uploader, which the upload page shows.
Upload(file) ==
    /\ ~pending
    /\ page = "upload"
    /\ \E order \in Orders(None) :
         Apply(Script(session, radioIdx, radioVal, None, Some(file), FALSE, order),
               "upload",
               IF IsDocumentedFormat(file) THEN "documented" ELSE "other")

\* The user picks another option of the sidebar radio.
Navigate(target) ==
    /\ ~pending
    /\ target # radioVal
    /\ \E order \in Orders(Some(target)) :
         Apply(Script(session, radioIdx, radioVal, Some(target), None, FALSE, order),
               "navigate", "none")

\* The user clicks "Draw Winner", which the map page shows below the map.
DrawWinner ==
    /\ ~pending
    /\ page = "map"
    /\ participants # None
    /\ ~fault
    /\ \E order \in Orders(None) :
         Apply(Script(session, radioIdx, radioVal, None, None, TRUE, order),
               "draw", "none")

\* st.rerun(): the script runs again at once, with no new input.
Rerun ==
    /\ pending
    /\ \E order \in Orders(None) :
         Apply(Script(session, radioIdx, radioVal, None, None, FALSE, order),
               "rerun", "none")

Next ==
    \/ \E file \in Files : Upload(file)
    \/ \E target \in {"upload", "map", "winner"} : Navigate(target)
    \/ DrawWinner
    \/ Rerun

Spec == Init /\ [][Next]_vars

(***************************************************************************)
(* Properties.                                                             *)
(***************************************************************************)
UploadErrors == {"invalid_columns", "invalid_format", "exception"}

\* Whether row i of frame ps is the first row holding the least distance.
IsFirstMinimum(ps, i) ==
    /\ i \in DOMAIN ps
    /\ ~ps[i].distance_km.nan
    /\ \A j \in DOMAIN ps :
          /\ ~ps[j].distance_km.nan
          /\ ps[i].distance_km.v <= ps[j].distance_km.v
          /\ (j < i => ps[i].distance_km.v < ps[j].distance_km.v)

\* The order a stable ascending sort by distance_km gives.
StableOrder(ps) ==
    CHOOSE p \in sort_values(ps) :
        \A a, b \in DOMAIN p :
            (a < b /\ ps[p[a]].distance_km = ps[p[b]].distance_km) => p[a] < p[b]

\* C1: after "Draw Winner" the stored winner is the stored participants' row
\* of least distance_km, and of the rows sharing that distance the first in
\* file order.
C1_DrawSelectsFirstMinimum ==
    lastOp = "draw" =>
        /\ participants # None
        /\ winner # None
        /\ IsFirstMinimum(Get(participants), Get(winner).index)
        /\ Get(winner).row = Get(participants)[Get(winner).index]

\* C1 witness: a draw over a frame in which a later row ties with the winner.
C1_Witness ==
    /\ lastOp = "draw"
    /\ winner # None
    /\ \E j \in DOMAIN Get(participants) :
          /\ j > Get(winner).index
          /\ Get(participants)[j].distance_km = Get(winner).row.distance_km
          /\ Get(participants)[j].name # Get(winner).row.name

\* C2: right after a successful upload the session's winner is None.
C2_UploadClearsWinner ==
    (lastOp = "upload" /\ msg = "success") => winner = None

\* C3: an upload run that ends in an error message leaves participants,
\* winner and page as they were before it.
C3_RejectedUploadChangesNothing ==
    [][(lastOp' = "upload" /\ msg' \in UploadErrors) =>
          (participants' = participants /\ winner' = winner /\ page' = page)]_vars

\* C3 witness: an upload was rejected while a frame and a winner were stored.
C3_Witness ==
    /\ lastOp = "upload"
    /\ msg \in UploadErrors
    /\ participants # None
    /\ winner # None
    /\ page = "upload"

\* C4: a stored participant frame has only rows whose coordinates cell
\* split into exactly two parts (a file with a row of another shape is
\* rejected, never stored).
C4_EveryStoredRowHasTwoParts ==
    participants # None =>
        \A i \in DOMAIN Get(participants) : Len(Get(participants)[i].coordinates) = 2

\* C5: an upload of a file in the documented format (header
\* name,coordinates, rows of three unquoted fields) succeeds and the session
\* goes on to the map view.
C5_DocumentedFormatAccepted ==
    (lastOp = "upload" /\ fileKind = "documented") => (msg = "success" /\ page = "map")

\* C6: "Draw Winner" is never taken on a frame without rows: a stored frame
\* has at least one row, and a draw run stores a winner from a non-empty
\* frame without an uncaught exception.
C6_DrawOnlyOnNonEmpty ==
    /\ participants # None => Len(Get(participants)) >= 1
    /\ lastOp = "draw" =>
          /\ participants # None
          /\ Len(Get(participants)) >= 1
          /\ ~fault
          /\ winner # None
          /\ page = "winner"

\* C6 witness: a draw over the smallest frame that can be stored.
C6_Witness ==
    /\ lastOp = "draw"
    /\ pending
    /\ page = "winner"
    /\ Len(Get(participants)) = 1

\* C7: once a run that found the Map view without participants, or the
\* Winner view without participants or winner, is over and no rerun is
\* pending, the session is on the upload view.
C7_MissingPrerequisiteSettlesOnUpload ==
    (~pending /\ msg \in {"no_data", "no_winner"}) => page = "upload"

\* C8: the table the Winner view shows is the participants sorted ascending
\* by distance_km with a stable sort, cut to the first 10 rows.
C8_LeaderboardIsStableSort ==
    leaderboard # None =>
        Get(leaderboard) = Leaderboard(Get(participants), StableOrder(Get(participants)))

\* C9: the stored participants change only in a successful upload run; draw,
\* navigation and rendering (the leaderboard sort included) leave them as
\* they are.
C9_ParticipantsChangeOnlyOnUpload ==
    [][participants' # participants => (lastOp' = "upload" /\ msg' = "success")]_vars

\* C9 witness: the Winner view showed a leaderboard whose first row is not
\* the stored frame's first row, after a draw.
C9_Witness ==
    /\ lastOp \in {"rerun", "navigate"}
    /\ leaderboard # None
    /\ winner # None
    /\ Get(leaderboard)[1].name # Get(participants)[1].name

\* C10: whenever a winner is stored it is a row of the stored participants
\* and its distance_km is the least of that frame.
C10_WinnerMatchesParticipants ==
    winner # None =>
        /\ participants # None
        /\ \E i \in DOMAIN Get(participants) :
              /\ Get(participants)[i] = Get(winner).row
              /\ \A j \in DOMAIN Get(participants) :
                    /\ ~Get(participants)[j].distance_km.nan
                    /\ Get(participants)[i].distance_km.v <= Get(participants)[j].distance_km.v

====
